---------------------------- MODULE Spec2Model ----------------------------
(***************************************************************************)
(* Model of pgbhz/diagnose: the model service's TransferModelRegistry      *)
(* (src/modelservice/app/inference.py), its asset path resolver, the       *)
(* corpus loader (data.py), the training orchestrator (trainer.py) and the *)
(* /train and /predict handlers (main.py), and the DiagnosisStore, the     *)
(* proxy endpoints and the EventBroadcaster of the dashboard service       *)
(* (src/pyservice/app/main.py).                                            *)
(*                                                                         *)
(* The specifications share the variables:                                 *)
(*   Spec         the registry object called from free-running threads     *)
(*   SpecLock     the same, with the weights artifact left alone           *)
(*   SpecService  the service: one event loop plus to_thread workers       *)
(*   SpecResolve  resolve_asset_path over small filesystems                *)
(*   SpecDataset  load_dataset over small corpus directories               *)
(*   SpecScore    the float arithmetic of predict and of the response      *)
(*   SpecFit      the epoch loop of _train_model with early stopping       *)
(*   SpecStore    DiagnosisStore while diagnosis.json changes on disk      *)
(*   SpecProxy    /api/classify-image and /api/train-model                 *)
(*   SpecEvents   /events streams and the queue worker's broadcasts        *)
(***************************************************************************)
EXTENDS Integers, Sequences, FiniteSets, TLC

\* ------------------------------------------------------------------ bounds
NumCallers == 2     \* threads calling the registry / concurrent /predict requests
MaxCalls == 3       \* registry calls started in one behaviour of Spec
MaxVersion == 2     \* times the weights artifact is (re)written
NumTrain == 2       \* concurrent /train requests
MaxRequests == 4    \* requests the service receives in one behaviour
MaxFiles == 2       \* entries of one class directory of a corpus
MaxSegs == 4        \* segments of a raw image path
SingleBits == 3     \* significand bits of the model's float32 output
DoubleBits == 5     \* significand bits of a Python float
FracBits == 10      \* binary places of the smallest positive float
MaxEpochs == 10     \* largest TrainRequest.epochs
MaxPatience == 3    \* largest TrainRequest.patience
MaxLoss == 3        \* distinct values of the validation loss
NumStreams == 2     \* /events requests
MaxEvents == 2      \* chat events the queue worker broadcasts

\* Python's None for the fields _model and _weights_digest; artifact versions
\* (and modification times) are 1, 2, ...
None == 0
\* WEIGHTS_PATH.exists() is False
Absent == 0

Callers == 1 .. NumCallers
Trainers == (NumCallers + 1) .. (NumCallers + NumTrain)
Tasks == Callers \cup Trainers

VARIABLES
    _model,             \* registry._model: None or the weights the classifier holds
    _weights_digest,    \* registry._weights_digest: None or an mtime
    lock,               \* registry._lock: 0 (free) or the holder
    weights,            \* the artifact at WEIGHTS_PATH: Absent or its version
    clock,              \* versions written so far (mtime of the latest write)
    pc,                 \* where each caller is
    local,              \* the local variable `model` of _load_model / predict
    ret,                \* last value returned to the caller by weights_version
    outcome,            \* how the caller's last predict ended
    loaded,             \* did the caller's current predict call load_weights
    hit,                \* was a classifier cached when the current predict began
    calls,              \* registry calls started so far (Spec)
    loads,              \* load_weights calls performed so far
    resets,             \* reset() calls that have returned
    okSince,            \* a predict has returned a result since the last reset()
    status,             \* HTTP status each request of the service was answered with
    trace,              \* the steps of train_all each /train request has performed
    floor,              \* newest version a completed /train had persisted when a
                        \* /predict request started
    trained,            \* newest version persisted by a completed /train request
    trainCorpus,        \* the directory TRAIN_DATA_DIR
    valCorpus,          \* the directory VALIDATION_DATA_DIR
    dataset,            \* what load_dataset returned or raised (SpecDataset)
    fs,                 \* the filesystem resolve_asset_path sees
    ASSETS_DIR,         \* config.ASSETS_DIR, a canonical path
    raw_path,           \* the argument of resolve_asset_path
    resolution,         \* what resolve_asset_path returned or raised
    prob,               \* float(predictions[0]) in predict
    scores,             \* the pair predict returns
    response,           \* the PredictResponse built from it
    request,            \* the TrainRequest of a run of _train_model
    fit,                \* the state of model.fit and its EarlyStopping callback
    metrics,            \* epochs_trained reported for each model
    _cache,             \* DiagnosisStore._cache
    diagnosis_json,     \* the file diagnosis.json
    entries,            \* what the last DiagnosisStore call returned
    snapshot,           \* the entries of the file when they were last due to be
                        \* loaded: at reload(), or at the first read_entries
    payload,            \* the request body of a dashboard proxy endpoint
    upstream,           \* what the model service does with the forwarded request
    proxied,            \* what the proxy endpoint sent, and returned or raised
    _queues,            \* EventBroadcaster._queues
    queue,              \* the items waiting in the asyncio.Queue of each stream
    stream,             \* each /events request: its position and its client
    worker,             \* _queue_worker: its position in broadcast
    broadcasts,         \* the snapshot each broadcast took, in broadcast order
    received            \* the payloads put on the queue of each stream so far

regVars == <<_model, _weights_digest, lock>>
fileVars == <<weights, clock>>
callVars == <<pc, local, ret, outcome, loaded, hit>>
histVars == <<calls, loads, resets, okSince>>
svcVars == <<status, trace, floor, trained, trainCorpus, valCorpus>>
dataVars == <<dataset>>
pathVars == <<fs, ASSETS_DIR, raw_path, resolution>>
scoreVars == <<prob, scores, response>>
fitVars == <<request, fit, metrics>>
storeVars == <<_cache, diagnosis_json, entries, snapshot>>
\* the state of the operations that are checked on their own
proxyVars == <<payload, upstream, proxied>>
eventVars == <<_queues, queue, stream, worker, broadcasts, received>>
restVars == <<proxyVars, eventVars>>
unitVars == <<scoreVars, fitVars, storeVars, restVars>>
otherVars == <<svcVars, dataVars, unitVars, pathVars>>
vars == <<regVars, fileVars, callVars, histVars, otherVars>>

InReset(t) == pc[t] \in {"reset_acquired", "reset_model_cleared"}

\* the caller's frame is gone once its call or handler has returned
DropFrame(t) ==
    /\ local' = [local EXCEPT ![t] = None]
    /\ ret' = [ret EXCEPT ![t] = None]
    /\ loaded' = [loaded EXCEPT ![t] = FALSE]
    /\ hit' = [hit EXCEPT ![t] = FALSE]

\* ------------------------------------------------- TransferModelRegistry
\* predict is entered from the caller's position `from`: nothing has run yet.
PredictBegin(t, from) ==
    /\ pc[t] = from
    /\ pc' = [pc EXCEPT ![t] = "exists"]
    /\ outcome' = [outcome EXCEPT ![t] = "running"]
    /\ loaded' = [loaded EXCEPT ![t] = FALSE]
    /\ hit' = [hit EXCEPT ![t] = /\ _model # None
                                 /\ _weights_digest # None
                                 /\ \A u \in DOMAIN pc : ~InReset(u)]
    /\ UNCHANGED <<otherVars, regVars, fileVars, local, ret, loads, resets, okSince>>

\* _load_model, line 26: if not WEIGHTS_PATH.exists(): raise FileNotFoundError
LoadCheckExists(t) ==
    /\ pc[t] = "exists"
    /\ IF weights = Absent
         THEN /\ pc' = [pc EXCEPT ![t] = "predict_returned"]
              /\ outcome' = [outcome EXCEPT ![t] = "WeightsMissing"]
         ELSE /\ pc' = [pc EXCEPT ![t] = "check"]
              /\ UNCHANGED outcome
    /\ UNCHANGED <<otherVars, regVars, fileVars, local, ret, loaded, hit, histVars>>

\* line 30: if self._model is None (read without the lock)
LoadCheckModel(t) ==
    /\ pc[t] = "check"
    /\ pc' = [pc EXCEPT ![t] = IF _model = None THEN "load" ELSE "return_model"]
    /\ UNCHANGED <<otherVars, regVars, fileVars, local, ret, outcome, loaded, hit, histVars>>

\* lines 31-32: build_transfer_model(); model.load_weights(WEIGHTS_PATH).
\* Opening an artifact that has been removed meanwhile raises.
LoadWeights(t) ==
    /\ pc[t] = "load"
    /\ IF weights = Absent
         THEN /\ pc' = [pc EXCEPT ![t] = "predict_returned"]
              /\ outcome' = [outcome EXCEPT ![t] = "LoadFailed"]
              /\ UNCHANGED <<local, loaded, loads>>
         ELSE /\ pc' = [pc EXCEPT ![t] = "install_model"]
              /\ local' = [local EXCEPT ![t] = weights]
              /\ loaded' = [loaded EXCEPT ![t] = TRUE]
              /\ loads' = loads + 1
              /\ UNCHANGED outcome
    /\ UNCHANGED <<otherVars, regVars, fileVars, ret, hit, calls, resets, okSince>>

\* line 33: self._model = model
InstallModel(t) ==
    /\ pc[t] = "install_model"
    /\ _model' = local[t]
    /\ pc' = [pc EXCEPT ![t] = "install_digest"]
    /\ UNCHANGED <<otherVars, _weights_digest, lock, fileVars, local, ret, outcome, loaded,
                   hit, histVars>>

\* line 34: self._weights_digest = str(WEIGHTS_PATH.stat().st_mtime_ns);
\* stat() of a removed artifact raises.
InstallDigest(t) ==
    /\ pc[t] = "install_digest"
    /\ IF weights = Absent
         THEN /\ pc' = [pc EXCEPT ![t] = "predict_returned"]
              /\ outcome' = [outcome EXCEPT ![t] = "StatFailed"]
              /\ UNCHANGED _weights_digest
         ELSE /\ pc' = [pc EXCEPT ![t] = "return_model"]
              /\ _weights_digest' = weights
              /\ UNCHANGED outcome
    /\ UNCHANGED <<otherVars, _model, lock, fileVars, local, ret, loaded, hit, histVars>>

\* (mutant of LoadReturn: predict takes the lock before it returns the model
\* and keeps it during the inference)
LoadReturnLocked(t) ==
    /\ pc[t] = "return_model"
    /\ lock = 0
    /\ lock' = t
    /\ local' = [local EXCEPT ![t] = _model]
    /\ pc' = [pc EXCEPT ![t] = "infer"]
    /\ UNCHANGED <<otherVars, _model, _weights_digest, fileVars, ret, outcome, loaded, hit,
                   histVars>>

\* line 35: return self._model (the field is read again)
LoadReturn(t) ==
    /\ pc[t] = "return_model"
    /\ local' = [local EXCEPT ![t] = _model]
    /\ pc' = [pc EXCEPT ![t] = "infer"]
    /\ UNCHANGED <<otherVars, regVars, fileVars, ret, outcome, loaded, hit, histVars>>

\* predict, lines 39-42: model.predict(batch) on the returned object; calling
\* it on None raises, and the inference itself may raise.
Infer(t) ==
    /\ pc[t] = "infer"
    /\ pc' = [pc EXCEPT ![t] = "predict_returned"]
    /\ IF local[t] = None
         THEN /\ outcome' = [outcome EXCEPT ![t] = "AttributeError"]
              /\ UNCHANGED okSince
         ELSE \/ /\ outcome' = [outcome EXCEPT ![t] = "ok"]
                 /\ okSince' = TRUE
              \/ /\ outcome' = [outcome EXCEPT ![t] = "InferenceFailed"]
                 /\ UNCHANGED okSince
    /\ UNCHANGED <<otherVars, regVars, fileVars, local, ret, loaded, hit, calls, loads, resets>>

\* reset, line 21: with self._lock
ResetAcquire(t, from) ==
    /\ pc[t] = from
    /\ lock = 0
    /\ lock' = t
    /\ pc' = [pc EXCEPT ![t] = "reset_acquired"]
    /\ hit' = [u \in DOMAIN hit |-> FALSE]
    /\ UNCHANGED <<otherVars, _model, _weights_digest, fileVars, local, ret, outcome, loaded,
                   loads, resets, okSince>>

\* line 22: self._model = None
ResetClearModel(t) ==
    /\ pc[t] = "reset_acquired"
    /\ _model' = None
    /\ pc' = [pc EXCEPT ![t] = "reset_model_cleared"]
    /\ UNCHANGED <<otherVars, _weights_digest, lock, fileVars, local, ret, outcome, loaded,
                   hit, histVars>>

\* line 23: self._weights_digest = None, then the with block releases the lock
ResetClearDigest(t) ==
    /\ pc[t] = "reset_model_cleared"
    /\ _weights_digest' = None
    /\ lock' = 0
    /\ pc' = [pc EXCEPT ![t] = "reset_returned"]
    /\ resets' = resets + 1
    /\ okSince' = FALSE
    /\ UNCHANGED <<otherVars, _model, fileVars, local, ret, outcome, loaded, hit, calls, loads>>

\* weights_version, lines 46-47: with self._lock: return self._weights_digest
WeightsVersion(t, from) ==
    /\ pc[t] = from
    /\ lock = 0
    /\ ret' = [ret EXCEPT ![t] = _weights_digest]
    /\ pc' = [pc EXCEPT ![t] = "version_returned"]
    /\ UNCHANGED <<otherVars, regVars, fileVars, local, outcome, loaded, hit, loads, resets,
                   okSince>>


\* --------------------------------------------------------- data.load_dataset
\* A corpus directory: for each class name, whether the subdirectory exists and
\* what it holds, in iteration order.  An entry is a decodable regular file
\* ("image"), a regular file cv2.imread cannot decode ("corrupt") or something
\* that is not a regular file ("subdir").
EntryKinds == {"image", "corrupt", "subdir"}

\* data.CLASS_MAP = {"c": 1, "nc": 0}, in insertion order
CLASS_MAP == <<[name |-> "c", label |-> 1], [name |-> "nc", label |-> 0]>>

\* load_image: cv2.imread returns None for an undecodable file -> ValueError
load_image(dir, path) ==
    [ok |-> dir[path[1]].items[path[2]] = "image", image |-> path]

\* the inner loop of _gather_files: entries i.. of one class directory
RECURSIVE ScanClass(_, _, _)
ScanClass(dir, cls, i) ==
    IF i > Len(dir[cls.name].items)
      THEN <<>>
      ELSE LET rest == ScanClass(dir, cls, i + 1)
           IN IF dir[cls.name].items[i] # "subdir"
                THEN <<[path |-> <<cls.name, i>>, label |-> cls.label]>> \o rest
                ELSE rest

\* _gather_files: a missing class directory is passed over
RECURSIVE GatherFrom(_, _)
GatherFrom(dir, k) ==
    IF k > Len(CLASS_MAP)
      THEN <<>>
      ELSE (IF dir[CLASS_MAP[k].name].exists
              THEN ScanClass(dir, CLASS_MAP[k], 1)
              ELSE <<>>) \o GatherFrom(dir, k + 1)

_gather_files(dir) == GatherFrom(dir, 1)

\* one pass of the loop of load_dataset, lines 48-53
DecodeStep(dir, f, acc) ==
    LET r == load_image(dir, f.path)
    IN IF r.ok
         THEN [acc EXCEPT !.images = Append(@, r.image),
                          !.labels = Append(@, f.label)]
         ELSE [acc EXCEPT !.skipped = Append(@, f.path)]

\* (mutant of DecodeAll: the first decode failure ends the scan)
RECURSIVE DecodeAllAborting(_, _, _, _)
DecodeAllAborting(dir, files, i, acc) ==
    IF i > Len(files) \/ ~load_image(dir, files[i].path).ok
      THEN acc
      ELSE DecodeAllAborting(dir, files, i + 1, DecodeStep(dir, files[i], acc))

RECURSIVE DecodeAll(_, _, _, _)
DecodeAll(dir, files, i, acc) ==
    IF i > Len(files)
      THEN acc
      ELSE DecodeAll(dir, files, i + 1, DecodeStep(dir, files[i], acc))

\* load_dataset: what it returns or raises, and the warnings it logs
load_dataset(dir) ==
    LET files == _gather_files(dir)
        acc == DecodeAll(dir, files, 1,
                         [images |-> <<>>, labels |-> <<>>, skipped |-> <<>>])
        logged == IF acc.skipped # <<>> THEN <<Len(acc.skipped)>> ELSE <<>>
    IN IF files = <<>>
         THEN [kind |-> "FileNotFoundError", images |-> <<>>, labels |-> <<>>,
               logged |-> <<>>]
         ELSE IF acc.images = <<>>
           THEN [kind |-> "ValueError", images |-> <<>>, labels |-> <<>>,
                 logged |-> logged]
           ELSE [kind |-> "ok", images |-> acc.images, labels |-> acc.labels,
                 logged |-> logged]


\* ------------------------------------------------ inference.resolve_asset_path
\* A path is the sequence of its segments below "/".  A filesystem maps the
\* canonical location of every entry to what is there; a symbolic link holds
\* an absolute target.  The filesystems below have no symbolic-link cycle.
Dir == [type |-> "dir", target |-> <<>>]
File == [type |-> "file", target |-> <<>>]
Link(to) == [type |-> "link", target |-> to]

Tree ==
    (<<>> :> Dir) @@ (<<"etc">> :> Dir) @@ (<<"etc", "passwd">> :> File)
    @@ (<<"assets">> :> Dir) @@ (<<"assets", "passwd">> :> File)
    @@ (<<"assets", "assets">> :> Dir)
    @@ (<<"assets", "assets", "passwd">> :> File)

Filesystems == {
    \* no symbolic links
    Tree,
    \* a link inside /assets that leaves it
    (<<"assets", "ln">> :> Link(<<"etc">>)) @@ Tree,
    \* a link that stays inside /assets, and one below it that leaves it
    (<<"assets", "ln">> :> Link(<<"assets", "assets">>))
        @@ (<<"assets", "assets", "ln">> :> Link(<<"etc", "passwd">>)) @@ Tree,
    \* /etc is itself a link into /assets/assets
    (<<"etc">> :> Link(<<"assets", "assets">>))
        @@ (<<>> :> Dir) @@ (<<"assets">> :> Dir)
        @@ (<<"assets", "assets">> :> Dir)
        @@ (<<"assets", "assets", "passwd">> :> File),
    \* no /etc/passwd
    (<<>> :> Dir) @@ (<<"etc">> :> Dir) @@ (<<"assets">> :> Dir)
        @@ (<<"assets", "passwd">> :> File) @@ (<<"assets", "assets">> :> Dir) }

Parent(p) == IF p = <<>> THEN <<>> ELSE SubSeq(p, 1, Len(p) - 1)

IsPrefix(p, q) == Len(p) <= Len(q) /\ SubSeq(q, 1, Len(p)) = p

\* Path.resolve() (os.path.realpath, not strict): segment by segment from "/",
\* ".." steps to the parent of the location reached, a symbolic link is
\* replaced by its target, a missing entry is kept as written.
RECURSIVE Walk(_, _, _)
Walk(f, cur, rest) ==
    IF rest = <<>>
      THEN cur
      ELSE LET s == Head(rest)
               nxt == Append(cur, s)
           IN IF s = ".."
                THEN Walk(f, Parent(cur), Tail(rest))
                ELSE IF nxt \in DOMAIN f /\ f[nxt].type = "link"
                  THEN Walk(f, <<>>, f[nxt].target \o Tail(rest))
                  ELSE Walk(f, nxt, Tail(rest))

Resolve(f, p) == Walk(f, <<>>, p)

\* Path(raw_path).parts below the anchor: pathlib drops "." segments
Parts(raw) == SelectSeq(raw.segs, LAMBDA s : s # ".")

\* The raw string is empty
IsEmptyString(raw) == ~raw.abs /\ raw.segs = <<>>

Raise(kind, msg) == [kind |-> kind, msg |-> msg, path |-> <<>>]

\* (mutant of resolve_asset_path: containment is tested on the joined path
\* before canonicalization, and that path is returned)
resolve_asset_path_unresolved(f, root, raw) ==
    IF IsEmptyString(raw)
      THEN Raise("ValueError", "image_path must be provided")
      ELSE
        LET parts == Parts(raw)
            cleaned == IF parts # <<>> /\ parts[1] = "assets"
                         THEN Tail(parts) ELSE parts
            joined == IF raw.abs THEN parts ELSE root \o cleaned
        IN IF ~IsPrefix(root, joined)
             THEN Raise("ValueError",
                        "image_path must reside under the assets directory")
             ELSE IF Resolve(f, joined) \notin DOMAIN f
               THEN Raise("FileNotFoundError", "Image not found")
               ELSE [kind |-> "path", msg |-> "", path |-> joined]

\* (mutant of resolve_asset_path: existence is tested before containment)
resolve_asset_path_exists_first(f, root, raw) ==
    IF IsEmptyString(raw)
      THEN Raise("ValueError", "image_path must be provided")
      ELSE
        LET parts == Parts(raw)
            cleaned == IF parts # <<>> /\ parts[1] = "assets"
                         THEN Tail(parts) ELSE parts
            resolved == IF raw.abs THEN Resolve(f, parts)
                                   ELSE Resolve(f, root \o cleaned)
        IN IF resolved \notin DOMAIN f
             THEN Raise("FileNotFoundError", "Image not found")
             ELSE IF ~IsPrefix(root, resolved)
               THEN Raise("ValueError",
                          "image_path must reside under the assets directory")
               ELSE [kind |-> "path", msg |-> "", path |-> resolved]

\* the segments left when every leading "assets" is dropped
RECURSIVE DropAssets(_)
DropAssets(parts) ==
    IF parts # <<>> /\ parts[1] = "assets" THEN DropAssets(Tail(parts)) ELSE parts

\* (mutant of resolve_asset_path: every leading "assets" segment is stripped)
resolve_asset_path_strip_all(f, root, raw) ==
    IF IsEmptyString(raw)
      THEN Raise("ValueError", "image_path must be provided")
      ELSE
        LET parts == Parts(raw)
            resolved == IF raw.abs THEN Resolve(f, parts)
                                   ELSE Resolve(f, root \o DropAssets(parts))
        IN IF ~IsPrefix(root, resolved)
             THEN Raise("ValueError",
                        "image_path must reside under the assets directory")
             ELSE IF resolved \notin DOMAIN f
               THEN Raise("FileNotFoundError", "Image not found")
               ELSE [kind |-> "path", msg |-> "", path |-> resolved]

resolve_asset_path(f, root, raw) ==
    IF IsEmptyString(raw)
      THEN Raise("ValueError", "image_path must be provided")
      ELSE
        LET parts == Parts(raw)
            cleaned == IF parts # <<>> /\ parts[1] = "assets"
                         THEN Tail(parts) ELSE parts
            resolved == IF raw.abs THEN Resolve(f, parts)
                                   ELSE Resolve(f, root \o cleaned)
        IN IF ~IsPrefix(root, resolved)
             THEN Raise("ValueError",
                        "image_path must reside under the assets directory")
             ELSE IF resolved \notin DOMAIN f
               THEN Raise("FileNotFoundError", "Image not found")
               ELSE [kind |-> "path", msg |-> "", path |-> resolved]


\* ------------------------------------------------------------ initial values
Pending == [kind |-> "pending", msg |-> "", path |-> <<>>]
NotLoaded == [kind |-> "pending", images |-> <<>>, labels |-> <<>>, logged |-> <<>>]
NoClassDir == [exists |-> FALSE, items |-> <<>>]
NoCorpus == [c |-> NoClassDir, nc |-> NoClassDir]

RegistryInit ==
    /\ _model = None
    /\ _weights_digest = None
    /\ lock = 0
    /\ local = [t \in Tasks |-> None]
    /\ ret = [t \in Tasks |-> None]
    /\ outcome = [t \in Tasks |-> "none"]
    /\ loaded = [t \in Tasks |-> FALSE]
    /\ hit = [t \in Tasks |-> FALSE]
    /\ calls = 0
    /\ loads = 0
    /\ resets = 0
    /\ okSince = FALSE

ServiceIdle ==
    /\ status = [t \in Tasks |-> 0]
    /\ trace = [t \in Tasks |-> <<>>]
    /\ floor = [t \in Tasks |-> 0]
    /\ trained = 0

DataIdle == dataset = NotLoaded

NoScores == [c |-> 0, nc |-> 0, kind |-> "pending"]
NoResponse == [label |-> "", probability |-> 0, raw_scores |-> <<>>, kind |-> "pending"]

ScoreIdle ==
    /\ prob = 0
    /\ scores = NoScores
    /\ response = NoResponse

FitIdle ==
    /\ request = [epochs |-> 0, patience |-> 0]
    /\ fit = <<>>
    /\ metrics = <<>>

\* DiagnosisStore._cache is None / holds a dict
NoCache == [some |-> FALSE, dict |-> <<>>]
Cached(d) == [some |-> TRUE, dict |-> d]
\* there is no file diagnosis.json
NoFile == [kind |-> "missing", data |-> <<>>]
NoCall == [op |-> "none", kind |-> "none", dict |-> <<>>, file |-> NoFile]
NoSnapshot == [valid |-> FALSE, dict |-> <<>>]

StoreIdle ==
    /\ _cache = NoCache
    /\ diagnosis_json = NoFile
    /\ entries = NoCall
    /\ snapshot = NoSnapshot

NoPayload == [endpoint |-> "none", body |-> <<>>]
Unreachable == [kind |-> "RequestError"]
NotProxied == [kind |-> "pending", sent |-> <<>>]

ProxyIdle ==
    /\ payload = NoPayload
    /\ upstream = Unreachable
    /\ proxied = NotProxied

EventsIdle ==
    /\ _queues = <<>>
    /\ queue = <<>>
    /\ stream = <<>>
    /\ worker = [pc |-> "blpop", i |-> 0]
    /\ broadcasts = <<>>
    /\ received = <<>>

RestIdle == ProxyIdle /\ EventsIdle

UnitsIdle == ScoreIdle /\ FitIdle /\ StoreIdle /\ RestIdle

PathIdle ==
    /\ fs = Tree
    /\ ASSETS_DIR = <<"assets">>
    /\ raw_path = [abs |-> FALSE, segs |-> <<>>]
    /\ resolution = Pending

\* ---------------------------------------------------------------------------
\* Spec: one TransferModelRegistry, called by threads that may be preempted
\* between any two statements, while the artifact is rewritten or removed.
\* ---------------------------------------------------------------------------
CallPredict(t) ==
    /\ calls < MaxCalls
    /\ calls' = calls + 1
    /\ PredictBegin(t, "idle")

CallReset(t) ==
    /\ calls < MaxCalls
    /\ calls' = calls + 1
    /\ ResetAcquire(t, "idle")

CallWeightsVersion(t) ==
    /\ calls < MaxCalls
    /\ calls' = calls + 1
    /\ WeightsVersion(t, "idle")

\* the call returns (or raises) to the thread
Return(t) ==
    /\ pc[t] \in {"predict_returned", "reset_returned", "version_returned"}
    /\ pc' = [pc EXCEPT ![t] = "idle"]
    /\ DropFrame(t)
    /\ outcome' = [outcome EXCEPT ![t] = "none"]
    /\ UNCHANGED <<otherVars, regVars, fileVars, histVars>>

\* transfer_model.save_weights(WEIGHTS_PATH) of a training run: the artifact
\* is overwritten and gets a new modification time
SaveWeights ==
    /\ clock < MaxVersion
    /\ clock' = clock + 1
    /\ weights' = clock + 1
    /\ UNCHANGED <<otherVars, regVars, callVars, histVars>>

\* the environment removes the artifact
RemoveWeights ==
    /\ weights # Absent
    /\ weights' = Absent
    /\ UNCHANGED <<otherVars, regVars, clock, callVars, histVars>>

Init ==
    /\ RegistryInit
    /\ weights \in {Absent, 1}
    /\ clock = weights
    /\ pc = [t \in Tasks |-> "idle"]
    /\ UnitsIdle /\ ServiceIdle /\ DataIdle /\ PathIdle
    /\ trainCorpus = NoCorpus
    /\ valCorpus = NoCorpus

Next ==
    \/ \E t \in Callers :
          \/ CallPredict(t)
          \/ LoadCheckExists(t)
          \/ LoadCheckModel(t)
          \/ LoadWeights(t)
          \/ InstallModel(t)
          \/ InstallDigest(t)
          \/ LoadReturn(t)
          \/ Infer(t)
          \/ CallReset(t)
          \/ ResetClearModel(t)
          \/ ResetClearDigest(t)
          \/ CallWeightsVersion(t)
          \/ Return(t)
    \/ SaveWeights
    \/ RemoveWeights

Spec == Init /\ [][Next]_vars


\* ---------------------------------------------------------------------------
\* Claims about the registry under free-running threads (Spec)
\* ---------------------------------------------------------------------------
NoResetYet == resets = 0 /\ \A u \in Tasks : ~InReset(u)

\* C1: as long as no reset() has been called, the predict calls of all threads
\* together load the weights from the artifact at most once.
C1_AtMostOneLoad == NoResetYet => loads <= 1

\* C5: once a reset() has returned, every weights_version read returns None
\* until a predict call has returned a result.
C5_NoneUntilNextPredict ==
    [][\A t \in Callers :
          (pc[t] = "idle" /\ pc'[t] = "version_returned" /\ resets > 0 /\ ~okSince)
              => ret'[t] = None]_vars

\* C6: whenever the lock is free (an observer can run), a classifier is cached
\* exactly when a version tag is stored.
C6_HandleAtomic == lock = 0 => ((_model = None) <=> (_weights_digest = None))

\* C7: a predict call that began with a loaded classifier in the cache, and
\* during which no reset() began, neither loads the weights again nor fails
\* with the weights-missing error, whatever became of the artifact.
C7_ReuseUntilReset ==
    \A t \in Callers :
        (hit[t] /\ pc[t] = "predict_returned")
            => (outcome[t] # "WeightsMissing" /\ ~loaded[t])


\* ---------------------------------------------------------------------------
\* SpecDataset: load_dataset applied to every corpus directory whose class
\* directories hold at most MaxFiles entries.
\* ---------------------------------------------------------------------------
SeqsUpTo(S, n) == UNION {[1 .. k -> S] : k \in 0 .. n}

ClassDirs ==
    {NoClassDir} \cup {[exists |-> TRUE, items |-> s] : s \in SeqsUpTo(EntryKinds, MaxFiles)}

Corpora == {[c |-> a, nc |-> b] : a \in ClassDirs, b \in ClassDirs}

Quiescent ==
    /\ RegistryInit
    /\ weights = Absent
    /\ clock = 0
    /\ pc = [t \in Tasks |-> "idle"]

InitDataset ==
    /\ Quiescent
    /\ UnitsIdle /\ ServiceIdle /\ PathIdle
    /\ trainCorpus \in Corpora
    /\ valCorpus = NoCorpus
    /\ dataset = NotLoaded

LoadDataset ==
    /\ dataset.kind = "pending"
    /\ dataset' = load_dataset(trainCorpus)
    /\ UNCHANGED <<regVars, fileVars, callVars, histVars, svcVars, pathVars, unitVars>>


NextDataset == LoadDataset

SpecDataset == InitDataset /\ [][NextDataset]_vars

\* the regular files of class directory cls of dir that are of the given kind
Count(dir, cls, kind) ==
    Cardinality({i \in 1 .. Len(dir[cls].items) : dir[cls].items[i] = kind})

Decodable(dir) == Count(dir, "c", "image") + Count(dir, "nc", "image")
Undecodable(dir) == Count(dir, "c", "corrupt") + Count(dir, "nc", "corrupt")

\* C8: with N decodable and M undecodable regular files under c/ and nc/,
\* load_dataset returns N images and N labels, each image a distinct decodable
\* file labelled 1 if it is under c and 0 if under nc; the skip count M is
\* logged (one record, when M > 0); with N = 0 it raises ValueError if M > 0
\* and FileNotFoundError if M = 0.
C8_LoadDataset ==
    dataset.kind # "pending" =>
        LET N == Decodable(trainCorpus)
            M == Undecodable(trainCorpus)
        IN /\ dataset.logged = (IF M > 0 THEN <<M>> ELSE <<>>)
           /\ N > 0 =>
                /\ dataset.kind = "ok"
                /\ Len(dataset.images) = N
                /\ Len(dataset.labels) = N
                /\ \A i \in 1 .. N :
                      /\ trainCorpus[dataset.images[i][1]].items[dataset.images[i][2]]
                            = "image"
                      /\ dataset.labels[i]
                            = (IF dataset.images[i][1] = "c" THEN 1 ELSE 0)
                      /\ \A j \in 1 .. N : dataset.images[i] = dataset.images[j] => i = j
           /\ (N = 0 /\ M > 0) => dataset.kind = "ValueError"
           /\ (N = 0 /\ M = 0) => dataset.kind = "FileNotFoundError"

\* a corrupt file precedes decodable ones, in both classes, and the load succeeds
C8_Witness ==
    /\ trainCorpus.c.exists /\ trainCorpus.c.items = <<"corrupt", "image">>
    /\ trainCorpus.nc.exists /\ trainCorpus.nc.items = <<"subdir", "image">>
    /\ dataset.kind = "ok"
    /\ dataset.labels = <<1, 0>>
    /\ dataset.logged = <<1>>

\* ---------------------------------------------------------------------------
\* SpecResolve: resolve_asset_path applied to every raw path of at most MaxSegs
\* segments, in each filesystem, for every canonical directory as asset root.
\* ---------------------------------------------------------------------------
Segments == {"..", ".", "assets", "etc", "passwd", "ln"}

RawPaths == {[abs |-> a, segs |-> s] : a \in BOOLEAN, s \in SeqsUpTo(Segments, MaxSegs)}

\* config.py line 21: ASSETS_DIR = Path(...).resolve(), here an existing directory
Roots(f) == {r \in DOMAIN f : f[r].type = "dir" /\ Resolve(f, r) = r}

InitResolve ==
    /\ Quiescent
    /\ UnitsIdle /\ ServiceIdle /\ DataIdle
    /\ trainCorpus = NoCorpus
    /\ valCorpus = NoCorpus
    /\ fs \in Filesystems
    /\ ASSETS_DIR \in Roots(fs)
    /\ raw_path \in RawPaths
    /\ resolution = Pending

ResolveAssetPath ==
    /\ resolution.kind = "pending"
    /\ resolution' = resolve_asset_path(fs, ASSETS_DIR, raw_path)
    /\ UNCHANGED <<regVars, fileVars, callVars, histVars, svcVars, dataVars, unitVars,
                   fs, ASSETS_DIR, raw_path>>

NextResolve == ResolveAssetPath

SpecResolve == InitResolve /\ [][NextResolve]_vars

\* C2: a path returned by resolve_asset_path lies, in canonical form, inside
\* ASSETS_DIR.
C2_Contained ==
    resolution.kind = "path" => IsPrefix(ASSETS_DIR, Resolve(fs, resolution.path))

\* a path is returned for an input that goes through a symbolic link and ".."
C2_Witness ==
    /\ resolution.kind = "path"
    /\ ASSETS_DIR = <<"assets">>
    /\ raw_path = [abs |-> FALSE, segs |-> <<"ln", "..", "ln", "passwd">>]
    /\ resolution.path = <<"assets", "assets", "passwd">>

DotDotEtcPasswd == [abs |-> FALSE, segs |-> <<"..", "..", "etc", "passwd">>]

MustReside ==
    /\ resolution.kind = "ValueError"
    /\ resolution.msg = "image_path must reside under the assets directory"

LoopLabels ==
    {"decoded", "exists", "check", "load", "install_model",
     "install_digest", "return_model", "infer", "predict_returned",
     "version_returned", "reset_acquired", "reset_model_cleared", "reset_returned"}

\* the run of train_all of request u is in progress in its worker thread
Training(u) == pc[u] \in {"train_all", "save"}

\* (mutant of LoopIdle: train_all runs on the event loop itself)
LoopIdleAndNoTraining ==
    /\ \A u \in Tasks : pc[u] \notin LoopLabels
    /\ \A u \in Trainers : ~Training(u)

\* no handler is in the middle of a stretch of event-loop code
LoopIdle == \A u \in Tasks : pc[u] \notin LoopLabels

\* the image_path values of the /predict requests
RequestPaths ==
    { [abs |-> FALSE, segs |-> <<>>],
      [abs |-> FALSE, segs |-> <<"assets", "passwd">>],
      [abs |-> FALSE, segs |-> <<"ln", "passwd">>],
      [abs |-> FALSE, segs |-> <<"etc">>],
      [abs |-> FALSE, segs |-> <<"..", "ln">>] }

\* ---- POST /predict: classify_image
\* requests of one kind are numbered in their order of arrival, and at most
\* MaxRequests requests arrive
Arrives(t, kind) ==
    /\ pc[t] = "new"
    /\ \A u \in kind : u < t => pc[u] # "new"
    /\ Cardinality({u \in Tasks : pc[u] # "new"}) < MaxRequests

\* main.py lines 46-54: the request reaches the handler, which calls
\* resolve_asset_path under its two except clauses and then data.load_image,
\* whose ValueError no clause catches
PredictResolve(t) ==
    /\ Arrives(t, Callers)
    /\ LoopIdle
    /\ \E raw \in RequestPaths, decodable \in BOOLEAN :
          LET r == resolve_asset_path(fs, ASSETS_DIR, raw)
              answer(code, exc) ==
                  /\ status' = [status EXCEPT ![t] = code]
                  /\ outcome' = [outcome EXCEPT ![t] = exc]
                  /\ pc' = [pc EXCEPT ![t] = "done"]
                  /\ UNCHANGED floor
          IN /\ raw_path' = raw
             /\ resolution' = r
             /\ \/ r.kind = "FileNotFoundError" /\ answer(404, r.kind)
                \/ r.kind = "ValueError" /\ answer(400, r.kind)
                \/ r.kind = "path" /\ ~decodable /\ answer(500, "UnreadableImage")
                \/ /\ r.kind = "path" /\ decodable
                   /\ pc' = [pc EXCEPT ![t] = "decoded"]
                   /\ floor' = [floor EXCEPT ![t] = trained]
                   /\ UNCHANGED <<status, outcome>>
    /\ UNCHANGED <<regVars, fileVars, local, ret, loaded, hit, histVars,
                   trace, trained, trainCorpus, valCorpus, dataVars, unitVars, fs, ASSETS_DIR>>

\* line 57: registry.predict(image)
PredictEnter(t) == PredictBegin(t, "decoded") /\ UNCHANGED calls

\* (mutant of PredictFailed: the missing artifact is answered like a missing
\* image)
PredictFailedNotFound(t) ==
    /\ pc[t] = "predict_returned"
    /\ outcome[t] # "ok"
    /\ status' = [status EXCEPT ![t] =
                    IF outcome[t] \in {"WeightsMissing", "LoadFailed", "StatFailed"}
                      THEN 404 ELSE 500]
    /\ pc' = [pc EXCEPT ![t] = "done"]
    /\ DropFrame(t)
    /\ floor' = [floor EXCEPT ![t] = 0]
    /\ UNCHANGED <<regVars, fileVars, outcome, histVars,
                   trace, trained, trainCorpus, valCorpus, dataVars, unitVars, pathVars>>

\* lines 58-59: FileNotFoundError -> 400; any other exception is not caught
PredictFailed(t) ==
    /\ pc[t] = "predict_returned"
    /\ outcome[t] # "ok"
    /\ status' = [status EXCEPT ![t] =
                    IF outcome[t] \in {"WeightsMissing", "LoadFailed", "StatFailed"}
                      THEN 400 ELSE 500]
    /\ pc' = [pc EXCEPT ![t] = "done"]
    /\ DropFrame(t)
    /\ floor' = [floor EXCEPT ![t] = 0]
    /\ UNCHANGED <<regVars, fileVars, outcome, histVars,
                   trace, trained, trainCorpus, valCorpus, dataVars, unitVars, pathVars>>

\* line 66: weights_version=registry.weights_version
PredictReadVersion(t) ==
    /\ outcome[t] = "ok"
    /\ WeightsVersion(t, "predict_returned")
    /\ UNCHANGED calls

\* lines 61-67: the response
PredictRespond(t) ==
    /\ pc[t] = "version_returned"
    /\ status' = [status EXCEPT ![t] = 200]
    /\ pc' = [pc EXCEPT ![t] = "done"]
    /\ DropFrame(t)
    /\ floor' = [floor EXCEPT ![t] = 0]
    /\ UNCHANGED <<regVars, fileVars, outcome, histVars,
                   trace, trained, trainCorpus, valCorpus, dataVars, unitVars, pathVars>>


\* ---- POST /train: train_models and, in a worker thread, trainer.train_all
\* main.py line 35: await asyncio.to_thread(train_all, payload)
TrainDispatch(t) ==
    /\ Arrives(t, Trainers)
    /\ LoopIdle
    /\ pc' = [pc EXCEPT ![t] = "train_all"]
    /\ outcome' = [outcome EXCEPT ![t] = "running"]
    /\ UNCHANGED <<regVars, fileVars, local, ret, loaded, hit, histVars,
                   svcVars, dataVars, unitVars, pathVars>>

\* trainer.py lines 53-60 and 62-69 with _train_model (lines 19-29): a model
\* is built, fitted and evaluated
TrainSteps(name) == <<"build_" \o name, "fit_" \o name, "evaluate_" \o name>>

\* the run of train_all up to its save failed with this exception
TrainRaises(t, kind, steps) ==
    /\ pc' = [pc EXCEPT ![t] = "raised"]
    /\ outcome' = [outcome EXCEPT ![t] = kind]
    /\ trace' = [trace EXCEPT ![t] = steps]
    /\ UNCHANGED fileVars

\* (mutant of TrainReachesSave: the baseline model's weights are persisted too)
TrainReachesSaveWithBaseline(t, steps) ==
    /\ pc' = [pc EXCEPT ![t] = "save"]
    /\ trace' = [trace EXCEPT ![t] = steps]
    /\ clock' = clock + 1
    /\ weights' = clock + 1
    /\ UNCHANGED outcome

\* the run of train_all up to its save succeeded
TrainReachesSave(t, steps) ==
    /\ pc' = [pc EXCEPT ![t] = "save"]
    /\ trace' = [trace EXCEPT ![t] = steps]
    /\ UNCHANGED <<outcome, fileVars>>

\* trainer.py lines 33-69: train_all loads the training corpus, then the
\* validation corpus, then builds and trains the baseline model, then the
\* transfer model. These statements touch only the thread's own frame, so they
\* are one step; the failure of a load propagates unchanged, and building or
\* fitting a model may fail as well
TrainPrepare(t) ==
    /\ pc[t] = "train_all"
    /\ LET train == load_dataset(trainCorpus)
           val == load_dataset(valCorpus)
           corpora == <<"load_train", "load_val">>
       IN IF train.kind # "ok" THEN TrainRaises(t, train.kind, <<>>)
          ELSE IF val.kind # "ok" THEN TrainRaises(t, val.kind, <<"load_train">>)
          ELSE \/ TrainRaises(t, "RuntimeError", corpora \o <<"build_baseline">>)
               \/ TrainRaises(t, "RuntimeError",
                              corpora \o TrainSteps("baseline") \o <<"build_transfer">>)
               \/ TrainReachesSave(t, corpora \o TrainSteps("baseline")
                                            \o TrainSteps("transfer"))
    /\ UNCHANGED <<regVars, local, ret, loaded, hit, histVars,
                   status, floor, trained, trainCorpus, valCorpus, dataVars, unitVars, pathVars>>

\* trainer.py line 71: transfer_model.save_weights(str(WEIGHTS_PATH))
TrainSave(t) ==
    /\ pc[t] = "save"
    /\ clock' = clock + 1
    /\ weights' = clock + 1
    /\ local' = [local EXCEPT ![t] = clock + 1]
    /\ trace' = [trace EXCEPT ![t] = Append(@, "save_transfer")]
    /\ pc' = [pc EXCEPT ![t] = "saved"]
    /\ UNCHANGED <<regVars, ret, outcome, loaded, hit, histVars,
                   status, floor, trained, trainCorpus, valCorpus, dataVars, unitVars, pathVars>>

\* (mutant of TrainFailed: the handler invalidates the cache on failure too)
TrainFailedInvalidates(t) ==
    /\ LoopIdle
    /\ ResetAcquire(t, "raised")
    /\ UNCHANGED calls

\* main.py lines 36-39: the handler resumes with the exception of train_all
TrainFailed(t) ==
    /\ pc[t] = "raised"
    /\ LoopIdle
    /\ status' = [status EXCEPT ![t] =
                    IF outcome[t] = "FileNotFoundError" THEN 404
                    ELSE IF outcome[t] = "ValueError" THEN 400 ELSE 500]
    /\ pc' = [pc EXCEPT ![t] = "done"]
    /\ UNCHANGED <<regVars, fileVars, local, ret, outcome, loaded, hit, histVars,
                   trace, floor, trained, trainCorpus, valCorpus, dataVars, unitVars, pathVars>>

\* (mutant of TrainInvalidate: the handler returns without registry.reset())
TrainSkipsInvalidate(t) ==
    /\ pc[t] = "saved"
    /\ LoopIdle
    /\ pc' = [pc EXCEPT ![t] = "reset_returned"]
    /\ UNCHANGED <<regVars, fileVars, local, ret, outcome, loaded, hit, histVars,
                   svcVars, dataVars, unitVars, pathVars>>

\* main.py line 41: the handler resumes with the result and calls registry.reset()
TrainInvalidate(t) ==
    /\ LoopIdle
    /\ ResetAcquire(t, "saved")
    /\ UNCHANGED calls

\* main.py line 42: return response
TrainRespond(t) ==
    /\ pc[t] = "reset_returned"
    /\ status' = [status EXCEPT ![t] = 200]
    /\ trained' = IF local[t] > trained THEN local[t] ELSE trained
    /\ outcome' = [outcome EXCEPT ![t] = "ok"]
    /\ pc' = [pc EXCEPT ![t] = "done"]
    /\ DropFrame(t)
    /\ UNCHANGED <<regVars, fileVars, histVars,
                   trace, floor, trainCorpus, valCorpus, dataVars, unitVars, pathVars>>

\* corpus directories of the service: a readable one, one whose files all fail
\* to decode, one with no class directory
GoodCorpus ==
    [c |-> [exists |-> TRUE, items |-> <<"image", "corrupt">>],
     nc |-> [exists |-> TRUE, items |-> <<"image">>]]
CorruptCorpus == [c |-> [exists |-> TRUE, items |-> <<"corrupt">>], nc |-> NoClassDir]
\* both class directories are there, with no regular file in them
EmptyCorpus ==
    [c |-> [exists |-> TRUE, items |-> <<>>],
     nc |-> [exists |-> TRUE, items |-> <<"subdir">>]]
ServiceCorpora == {GoodCorpus, CorruptCorpus, EmptyCorpus, NoCorpus}

InitService ==
    /\ RegistryInit
    /\ weights \in {Absent, 1}
    /\ clock = weights
    /\ pc = [t \in Tasks |-> "new"]
    /\ UnitsIdle /\ ServiceIdle /\ DataIdle
    /\ trainCorpus \in ServiceCorpora
    /\ valCorpus \in ServiceCorpora
    /\ fs = (<<"assets", "ln">> :> Link(<<"etc">>)) @@ Tree
    /\ ASSETS_DIR = <<"assets">>
    /\ raw_path = [abs |-> FALSE, segs |-> <<>>]
    /\ resolution = Pending

NextService ==
    \/ \E t \in Callers :
          \/ PredictResolve(t)
          \/ PredictEnter(t)
          \/ LoadCheckExists(t)
          \/ LoadCheckModel(t)
          \/ LoadWeights(t)
          \/ InstallModel(t)
          \/ InstallDigest(t)
          \/ LoadReturn(t)
          \/ Infer(t)
          \/ PredictFailed(t)
          \/ PredictReadVersion(t)
          \/ PredictRespond(t)
    \/ \E t \in Trainers :
          \/ TrainDispatch(t)
          \/ TrainPrepare(t)
          \/ TrainSave(t)
          \/ TrainFailed(t)
          \/ TrainInvalidate(t)
          \/ ResetClearModel(t)
          \/ ResetClearDigest(t)
          \/ TrainRespond(t)

SpecService == InitService /\ [][NextService]_vars


\* ---------------------------------------------------------------------------
\* Claims about the service (SpecService)
\* ---------------------------------------------------------------------------
\* C4: a /predict request that started after a /train request completed runs
\* inference with a classifier loaded from an artifact at least as new as the
\* one that /train request persisted.
C4_FreshAfterTrain ==
    \A t \in Callers :
        (pc[t] = "infer" /\ local[t] # None) => local[t] >= floor[t]

\* a request was answered from a classifier loaded before a /train request
\* completed; a request that started after it completed has loaded the
\* weights again and is about to run inference with the version it persisted
C4_Witness ==
    \E t, u \in Callers :
        /\ status[u] = 200 /\ loads = 2
        /\ pc[t] = "infer" /\ floor[t] = 2 /\ local[t] = 2 /\ loaded[t]

LoadFailures == {"FileNotFoundError", "ValueError"}

\* C9: when load_dataset fails for the training or the validation corpus,
\* train_all ends with that failure before any model is built, and no step of
\* that request (the failing load, the handler's error response) changes the
\* artifact or the registry.
C9_LoadFailureAborts ==
    [][\A t \in Trainers :
          (outcome'[t] \in LoadFailures /\ pc'[t] # pc[t]) =>
              /\ UNCHANGED <<regVars, fileVars>>
              /\ trace'[t] \in {<<>>, <<"load_train">>}
              /\ outcome'[t] = (IF trace'[t] = <<>>
                                  THEN load_dataset(trainCorpus).kind
                                  ELSE load_dataset(valCorpus).kind)
              /\ pc'[t] = "done" =>
                    status'[t] = (IF outcome'[t] = "FileNotFoundError" THEN 404 ELSE 400)
      ]_vars

\* the validation corpus failed to load after the training corpus loaded; the
\* request was answered 400 and the cached classifier and the artifact are
\* still there
C9_Witness ==
    \E t \in Trainers :
        /\ pc[t] = "done" /\ status[t] = 400 /\ trace[t] = <<"load_train">>
        /\ _model = 1 /\ _weights_digest = 1 /\ weights = 1

FullTrace ==
    <<"load_train", "load_val",
      "build_baseline", "fit_baseline", "evaluate_baseline",
      "build_transfer", "fit_transfer", "evaluate_transfer",
      "save_transfer">>

\* C10: the artifact changes only in the save step of a train_all run that has
\* loaded both corpora and built, fitted and evaluated the baseline and then
\* the transfer model, and that step writes the transfer model's weights; a
\* /train request answered 200 has performed exactly these steps, the save once
\* and last.
C10_PersistTransferOnce ==
    [][/\ (weights' # weights \/ clock' # clock) =>
              \E t \in Trainers :
                  /\ pc[t] = "save" /\ pc'[t] = "saved"
                  /\ trace[t] = SubSeq(FullTrace, 1, Len(FullTrace) - 1)
                  /\ trace'[t] = FullTrace
       /\ \A t \in Trainers :
              (pc'[t] \in {"saved", "done"} /\ outcome'[t] \in {"running", "ok"})
                  => trace'[t] = FullTrace
      ]_vars

\* a /train request was answered 200 and the artifact is the one it wrote
C10_Witness ==
    \E t \in Trainers :
        /\ pc[t] = "done" /\ status[t] = 200
        /\ trace[t] = FullTrace /\ weights = trained


\* the location an image path names: an absolute path as it is, a relative
\* one below the asset root without its leading "assets" segment
Named(raw) ==
    LET parts == Parts(raw)
    IN IF raw.abs THEN parts
       ELSE ASSETS_DIR \o (IF parts # <<>> /\ parts[1] = "assets"
                             THEN Tail(parts) ELSE parts)

OutsideAndMissing == [abs |-> FALSE, segs |-> <<"..", "ln">>]

\* C11: a /predict request is answered 400 when its image path is empty or
\* its canonical location lies outside the asset root, whether or not that
\* location exists; 404 when the location lies inside the root and does not
\* exist, and only then; and 400 when the image was found and decoded and the
\* weights artifact is missing.
C11_PredictStatus ==
    [][\A t \in Callers :
          (pc'[t] = "done" /\ pc[t] # "done") =>
              LET target == Resolve(fs, Named(raw_path'))
                  invalid == \/ IsEmptyString(raw_path')
                             \/ ~IsPrefix(ASSETS_DIR, target)
                  exists == target \in DOMAIN fs
              IN /\ invalid => status'[t] = 400
                 /\ status'[t] = 404 <=> (~invalid /\ ~exists)
                 /\ (/\ ~invalid /\ exists
                     /\ outcome'[t] # "UnreadableImage"
                     /\ weights' = Absent) => status'[t] = 400
      ]_vars

\* one request named a location outside the root that does not exist and was
\* answered 400 after another, whose image was read, was answered 400 because
\* the artifact is missing
C11_Witness ==
    \E t, u \in Callers :
        /\ pc[u] = "done" /\ status[u] = 400 /\ outcome[u] = "WeightsMissing"
        /\ pc[t] = "done" /\ status[t] = 400 /\ raw_path = OutsideAndMissing
        /\ Resolve(fs, Named(raw_path)) \notin DOMAIN fs
        /\ weights = Absent


\* the corpus whose load ended the run of train_all of request t
FailedCorpus(t) == IF trace[t] = <<>> THEN trainCorpus ELSE valCorpus

\* C12 (as claimed): a /train request whose corpus failed to load is answered
\* 404 when the corpus directory is absent (no class directory can be found
\* under it) and 400 when it is present but holds no candidate file or only
\* files that fail to decode.
C12_TrainStatus ==
    \A t \in Trainers :
        (pc[t] = "done" /\ outcome[t] \in LoadFailures) =>
            status[t] = (IF \A k \in DOMAIN CLASS_MAP :
                                ~FailedCorpus(t)[CLASS_MAP[k].name].exists
                           THEN 404 ELSE 400)


\* C13 (as claimed): the decode error of load_image for one file never leaves
\* the operation that decodes: no /predict request ends with it, and a /train
\* request ends with load_dataset's ValueError only when no file of the corpus
\* could be decoded at all.
C13_DecodeErrorContained ==
    /\ \A t \in Callers : pc[t] = "done" => outcome[t] # "UnreadableImage"
    /\ \A t \in Trainers :
          (pc[t] = "done" /\ outcome[t] = "ValueError") =>
              load_dataset(FailedCorpus(t)).images = <<>>


\* ---------------------------------------------------------------------------
\* SpecScore: the arithmetic of predict (inference.py lines 41-42) and of the
\* response of classify_image (main.py lines 61-65), for every output of the
\* classifier's sigmoid unit.  A float is the integer n that stands for
\* n / 2^FracBits; it is representable with b significand bits when n has at
\* most b significant binary digits.  An arithmetic result is rounded to the
\* nearest representable value, ties to the even significand (IEEE 754).
\* ---------------------------------------------------------------------------
One == 2 ^ FracBits

RECURSIVE BitLen(_)
BitLen(n) == IF n = 0 THEN 0 ELSE 1 + BitLen(n \div 2)

\* (rounding toward zero, for the mutants)
Chop(bits, n) ==
    IF BitLen(n) <= bits THEN n
    ELSE LET unit == 2 ^ (BitLen(n) - bits) IN (n \div unit) * unit

Round(bits, n) ==
    IF BitLen(n) <= bits THEN n
    ELSE LET unit == 2 ^ (BitLen(n) - bits)
             q == n \div unit
             r == n % unit
             up == 2 * r > unit \/ (2 * r = unit /\ q % 2 = 1)
         IN (IF up THEN q + 1 ELSE q) * unit

\* float(predictions[0]): a float32 in [0, 1], converted exactly
Singles == {n \in 0 .. One : Round(SingleBits, n) = n}

\* (mutant of predict_scores: the difference is rounded toward zero)
predict_scores_chopped(p) ==
    [c |-> p, nc |-> Chop(DoubleBits, One - p), kind |-> "ok"]

\* predict, lines 41-42: prob = float(predictions[0]); return prob, 1.0 - prob
predict_scores(p) ==
    [c |-> p, nc |-> Round(DoubleBits, One - p), kind |-> "ok"]

\* (mutant of PredictResponse: the probability is always the positive one)
PredictResponsePositive(positive_prob, negative_prob) ==
    [label |-> IF 2 * positive_prob >= One THEN "c" ELSE "nc",
     probability |-> positive_prob,
     raw_scores |-> [c |-> positive_prob, nc |-> negative_prob],
     kind |-> "ok"]

\* classify_image, lines 61-65
PredictResponse(positive_prob, negative_prob) ==
    LET label == IF 2 * positive_prob >= One THEN "c" ELSE "nc"
    IN [label |-> label,
        probability |-> IF label = "c" THEN positive_prob ELSE negative_prob,
        raw_scores |-> [c |-> positive_prob, nc |-> negative_prob],
        kind |-> "ok"]

InitScore ==
    /\ Quiescent
    /\ FitIdle /\ StoreIdle /\ RestIdle /\ ServiceIdle /\ DataIdle /\ PathIdle
    /\ trainCorpus = NoCorpus
    /\ valCorpus = NoCorpus
    /\ prob \in Singles
    /\ scores = NoScores
    /\ response = NoResponse

ScorePredict ==
    /\ scores.kind = "pending"
    /\ scores' = predict_scores(prob)
    /\ UNCHANGED <<regVars, fileVars, callVars, histVars, svcVars, dataVars,
                   pathVars, restVars, fitVars, storeVars, prob, response>>

ScoreRespond ==
    /\ scores.kind = "ok"
    /\ response.kind = "pending"
    /\ response' = PredictResponse(scores.c, scores.nc)
    /\ UNCHANGED <<regVars, fileVars, callVars, histVars, svcVars, dataVars,
                   pathVars, restVars, fitVars, storeVars, prob, scores>>

NextScore == ScorePredict \/ ScoreRespond

SpecScore == InitScore /\ [][NextScore]_vars

\* C14: the response has label "c" exactly when positiveProb >= 0.5 and "nc"
\* otherwise; its probability is positiveProb for "c" and negativeProb for
\* "nc" and is never below 0.5; raw_scores carries positiveProb under "c" and
\* negativeProb under "nc".
C14_LabelAndProbability ==
    response.kind = "ok" =>
        /\ response.label \in {"c", "nc"}
        /\ response.label = "c" <=> 2 * prob >= One
        /\ response.probability = (IF response.label = "c" THEN prob ELSE scores.nc)
        /\ 2 * response.probability >= One
        /\ response.raw_scores = [c |-> prob, nc |-> scores.nc]

\* a response "nc" for the largest probability below 0.5, reporting the
\* negative probability
C14_Witness ==
    /\ response.kind = "ok" /\ response.label = "nc"
    /\ prob > 0 /\ \A q \in Singles : 2 * q < One => q <= prob
    /\ response.probability = One - prob
    /\ response.probability # prob

\* C15: negativeProb is the float 1.0 - positiveProb, and the float sum
\* positiveProb + negativeProb is exactly 1.0.
C15_SumIsOne ==
    scores.kind = "ok" =>
        /\ scores.c = prob
        /\ scores.nc = Round(DoubleBits, One - scores.c)
        /\ Round(DoubleBits, scores.c + scores.nc) = One

\* a result whose subtraction was inexact: negativeProb is not the real number
\* 1 - positiveProb
C15_Witness ==
    /\ scores.kind = "ok"
    /\ scores.c > 0
    /\ scores.nc # One - scores.c


\* ---------------------------------------------------------------------------
\* SpecFit: _train_model (trainer.py lines 18-29) for the baseline and then
\* the transfer model of one request.  model.fit(epochs=epochs,
\* callbacks=[stopper]) is the Keras epoch loop: it runs epoch 0, 1, ... while
\* fewer than `epochs` epochs have run and no callback has set stop_training,
\* and appends one loss to the history per epoch; the stopper is the
\* EarlyStopping(monitor="val_loss", patience=patience) of
\* modeling.build_early_stopping.
\* ---------------------------------------------------------------------------
Models == <<"baseline", "transfer">>

\* a val_loss larger than every loss an epoch can produce (EarlyStopping.best
\* starts at infinity)
Infinity == MaxLoss + 1

\* model.fit is entered for model number m with a fresh stopper
NewFit(m) ==
    [model |-> m, history |-> <<>>, wait |-> 0, best |-> Infinity,
     stop_training |-> FALSE]

\* EarlyStopping.on_epoch_end for the epoch numbered `epoch` (from 0)
on_epoch_end(f, epoch, val_loss, patience) ==
    IF val_loss < f.best
      THEN [f EXCEPT !.best = val_loss, !.wait = 0]
      ELSE [f EXCEPT !.wait = @ + 1,
                     !.stop_training = (f.wait + 1 >= patience /\ epoch > 0)]

\* one epoch of fit: train, validate, record the loss, run the callback
RunEpoch(val_loss) ==
    LET epoch == Len(fit.history)
    IN fit' = on_epoch_end([fit EXCEPT !.history = Append(@, epoch)],
                           epoch, val_loss, request.patience)

\* (mutant of FitEpoch: the loop ignores the epochs argument)
FitEpochUnbounded ==
    /\ fit # <<>>
    /\ ~fit.stop_training
    /\ Len(fit.history) <= MaxEpochs
    /\ \E val_loss \in 1 .. MaxLoss : RunEpoch(val_loss)
    /\ UNCHANGED <<regVars, fileVars, callVars, histVars, svcVars, dataVars,
                   pathVars, restVars, scoreVars, storeVars, request, metrics>>

\* trainer.py line 26: one more epoch of model.fit
FitEpoch ==
    /\ fit # <<>>
    /\ ~fit.stop_training
    /\ Len(fit.history) < request.epochs
    /\ \E val_loss \in 1 .. MaxLoss : RunEpoch(val_loss)
    /\ UNCHANGED <<regVars, fileVars, callVars, histVars, svcVars, dataVars,
                   pathVars, restVars, scoreVars, storeVars, request, metrics>>

\* lines 27-29: fit has returned; trained_epochs = len(history.history["loss"]).
\* train_all (lines 54-69) then trains the next model
FitReturn ==
    /\ fit # <<>>
    /\ fit.stop_training \/ Len(fit.history) >= request.epochs
    /\ metrics' = Append(metrics, [model |-> Models[fit.model],
                                   epochs_trained |-> Len(fit.history)])
    /\ fit' = IF fit.model < Len(Models) THEN NewFit(fit.model + 1) ELSE <<>>
    /\ UNCHANGED <<regVars, fileVars, callVars, histVars, svcVars, dataVars,
                   pathVars, restVars, scoreVars, storeVars, request>>

\* schemas.py lines 7-8: epochs >= 1, patience >= 1
InitFit ==
    /\ Quiescent
    /\ ScoreIdle /\ StoreIdle /\ RestIdle /\ ServiceIdle /\ DataIdle /\ PathIdle
    /\ trainCorpus = NoCorpus
    /\ valCorpus = NoCorpus
    /\ request \in [epochs : 1 .. MaxEpochs, patience : 1 .. MaxPatience]
    /\ fit = NewFit(1)
    /\ metrics = <<>>

NextFit == FitEpoch \/ FitReturn

SpecFit == InitFit /\ [][NextFit]_vars

\* C16: the epochs_trained reported for the baseline and for the transfer
\* model is at least 1 and at most request.epochs (at most 10 for epochs = 10,
\* patience = 3).
C16_EpochsTrained ==
    \A i \in DOMAIN metrics :
        /\ metrics[i].epochs_trained >= 1
        /\ metrics[i].epochs_trained <= request.epochs
        /\ (request.epochs = 10 /\ request.patience = 3) =>
              metrics[i].epochs_trained <= 10

\* epochs = 10, patience = 3: the baseline model was stopped early after 4
\* epochs and the transfer model ran all 10
C16_Witness ==
    /\ request = [epochs |-> 10, patience |-> 3]
    /\ metrics = <<[model |-> "baseline", epochs_trained |-> 4],
                   [model |-> "transfer", epochs_trained |-> 10]>>


\* the steps of classify_image after the image is decoded
PredictHandler(t) ==
    \/ PredictEnter(t) \/ LoadCheckExists(t) \/ LoadCheckModel(t)
    \/ LoadWeights(t) \/ InstallModel(t) \/ InstallDigest(t) \/ LoadReturn(t)
    \/ Infer(t) \/ PredictFailed(t) \/ PredictReadVersion(t) \/ PredictRespond(t)

\* every request is waiting to arrive, answered, in its worker thread or
\* suspended on it: no handler occupies the event loop
AllSuspended ==
    \A u \in Tasks : pc[u] \in {"new", "done", "train_all", "save", "saved", "raised"}

\* C17: while a run of train_all is in progress, the next /predict request can
\* enter its handler as soon as no other handler occupies the event loop, and
\* a /predict handler that has started can take its next step, up to its
\* response: nothing in it waits for the training run.
C17_TrainingDoesNotBlock ==
    (\E u \in Trainers : Training(u)) =>
        \A t \in Callers :
            /\ (Arrives(t, Callers) /\ AllSuspended) => ENABLED PredictResolve(t)
            /\ pc[t] \in LoopLabels => ENABLED PredictHandler(t)

\* a /predict request that arrived after a /train request was dispatched has
\* been served up to its response while train_all has not yet reached its save
C17_Witness ==
    \E t \in Callers, u \in Trainers :
        /\ pc[u] = "train_all"
        /\ pc[t] = "version_returned" /\ outcome[t] = "ok"


\* C18 (as claimed): at most one run of train_all is in progress at any time,
\* so no two runs are about to write the weights artifact at once.
C18_TrainSerialized ==
    /\ Cardinality({u \in Trainers : Training(u)}) <= 1
    /\ Cardinality({u \in Trainers : pc[u] = "save"}) <= 1


\* raw_path is relative and its first segment is "assets"
EchoesPrefix ==
    /\ ~raw_path.abs
    /\ Parts(raw_path) # <<>>
    /\ Parts(raw_path)[1] = "assets"

\* the remainder r of such a path, below the asset root
BelowRoot == ASSETS_DIR \o Tail(Parts(raw_path))

\* r leads to an existing entry inside the asset root
NamesAsset ==
    /\ Resolve(fs, BelowRoot) \in DOMAIN fs
    /\ IsPrefix(ASSETS_DIR, Resolve(fs, BelowRoot))

\* C19 (as claimed): for a relative input "assets/r" where r names an existing
\* entry under the asset root, resolve_asset_path returns the path
\* ASSETS_DIR/r.
C19_ReturnsRootSlashR ==
    (resolution.kind # "pending" /\ EchoesPrefix /\ NamesAsset) =>
        /\ resolution.kind = "path"
        /\ resolution.path = BelowRoot

\* C19 (amended): for a relative input "assets/r" where r leads to an existing
\* entry inside the asset root, resolve_asset_path returns the canonical
\* location of ASSETS_DIR/r, which is ASSETS_DIR/r itself when r has no ".."
\* segment and crosses no symbolic link; only the first "assets" segment is
\* stripped; and an absolute input is resolved as it is written.
C19_StripsOneAssets ==
    resolution.kind # "pending" =>
        /\ (EchoesPrefix /\ NamesAsset) =>
              /\ resolution.kind = "path"
              /\ resolution.path = Resolve(fs, BelowRoot)
              /\ Resolve(fs, BelowRoot) = BelowRoot => resolution.path = BelowRoot
        /\ raw_path.abs =>
              /\ resolution.kind = "path" =>
                    resolution.path = Resolve(fs, Parts(raw_path))
              /\ ~IsPrefix(ASSETS_DIR, Resolve(fs, Parts(raw_path))) => MustReside

\* "assets/assets/passwd" below /assets is /assets/assets/passwd, although
\* /assets/passwd exists as well
C19_Witness ==
    /\ raw_path = [abs |-> FALSE, segs |-> <<"assets", "assets", "passwd">>]
    /\ ASSETS_DIR = <<"assets">>
    /\ <<"assets", "passwd">> \in DOMAIN fs
    /\ resolution.kind = "path"
    /\ resolution.path = <<"assets", "assets", "passwd">>


\* ---------------------------------------------------------------------------
\* SpecStore: the DiagnosisStore of the dashboard service
\* (src/pyservice/app/main.py lines 69-99).  Its callers are handlers without
\* an await around the call, so calls do not interleave; diagnosis.json is
\* rewritten, removed or damaged between calls.
\* ---------------------------------------------------------------------------
Patients == {"usr", "other"}

\* the value under a patient key: a JSON array of entries, or something else
JsonValues ==
    {[list |-> TRUE, items |-> <<"e1">>], [list |-> TRUE, items |-> <<"e2">>],
     [list |-> FALSE, items |-> <<>>]}

\* diagnosis.json: missing, not JSON, a JSON array, or a JSON object
FileStates ==
    {NoFile, [kind |-> "malformed", data |-> <<>>], [kind |-> "array", data |-> <<>>]}
    \cup {[kind |-> "object", data |-> d] :
             d \in UNION {[P -> JsonValues] : P \in SUBSET Patients}}

\* _load, lines 89-99: {} for a missing file; json.load raises for a malformed
\* one and data.items() for an array; values that are not lists are dropped
_load(file) ==
    IF file.kind = "missing"
      THEN [kind |-> "ok", dict |-> <<>>]
      ELSE IF file.kind # "object"
        THEN [kind |-> "raised", dict |-> <<>>]
        ELSE [kind |-> "ok",
              dict |-> [p \in {q \in DOMAIN file.data : file.data[q].list}
                           |-> file.data[p].items]]

\* (mutant of read_entries: `if not self._cache`, so an empty dict is loaded
\* again)
read_entries_if_empty(cache, file) ==
    IF ~cache.some \/ DOMAIN cache.dict = {}
      THEN LET r == _load(file)
           IN [cache |-> IF r.kind = "ok" THEN Cached(r.dict) ELSE cache,
               kind |-> r.kind, dict |-> r.dict]
      ELSE [cache |-> cache, kind |-> "ok", dict |-> cache.dict]

\* read_entries, lines 80-83: the new cache and what is returned or raised
read_entries(cache, file) ==
    IF ~cache.some
      THEN LET r == _load(file)
           IN [cache |-> IF r.kind = "ok" THEN Cached(r.dict) ELSE cache,
               kind |-> r.kind, dict |-> r.dict]
      ELSE [cache |-> cache, kind |-> "ok", dict |-> cache.dict]

Returned(op, r) ==
    [op |-> op, kind |-> r.kind, dict |-> r.dict, file |-> diagnosis_json]

\* diagnosis_store.read_entries() (lines 309, 329).  It is the first load when
\* no entries have been loaded since the start or the last reload()
ReadEntries ==
    /\ LET r == read_entries(_cache, diagnosis_json)
       IN /\ _cache' = r.cache
          /\ entries' = Returned("read_entries", r)
    /\ snapshot' = IF snapshot.valid \/ _load(diagnosis_json).kind # "ok"
                     THEN snapshot
                     ELSE [valid |-> TRUE, dict |-> _load(diagnosis_json).dict]
    /\ UNCHANGED <<regVars, fileVars, callVars, histVars, svcVars, dataVars,
                   pathVars, restVars, scoreVars, fitVars, diagnosis_json>>

\* reload, lines 85-87: self._cache = None; return self.read_entries()
Reload ==
    /\ LET r == read_entries(NoCache, diagnosis_json)
       IN /\ _cache' = r.cache
          /\ entries' = Returned("reload", r)
    /\ snapshot' = IF _load(diagnosis_json).kind # "ok"
                     THEN NoSnapshot
                     ELSE [valid |-> TRUE, dict |-> _load(diagnosis_json).dict]
    /\ UNCHANGED <<regVars, fileVars, callVars, histVars, svcVars, dataVars,
                   pathVars, restVars, scoreVars, fitVars, diagnosis_json>>

\* the file is changed on disk
StoreWrite ==
    /\ \E f \in FileStates : f # diagnosis_json /\ diagnosis_json' = f
    /\ UNCHANGED <<regVars, fileVars, callVars, histVars, svcVars, dataVars,
                   pathVars, restVars, scoreVars, fitVars, _cache, entries, snapshot>>

InitStore ==
    /\ Quiescent
    /\ ScoreIdle /\ FitIdle /\ RestIdle /\ ServiceIdle /\ DataIdle /\ PathIdle
    /\ trainCorpus = NoCorpus
    /\ valCorpus = NoCorpus
    /\ _cache = NoCache
    /\ diagnosis_json \in FileStates
    /\ entries = NoCall
    /\ snapshot = NoSnapshot

NextStore == ReadEntries \/ Reload \/ StoreWrite

SpecStore == InitStore /\ [][NextStore]_vars

\* C20: every call that returns entries returns the ones that were in the file
\* at the last reload(), or at the first read_entries when there has been no
\* reload() since the entries were last discarded, whatever the file holds
\* now; and reload() returns the entries the file holds when it is called.
C20_CachedUntilReload ==
    entries.kind = "ok" =>
        /\ snapshot.valid
        /\ entries.dict = snapshot.dict
        /\ entries.op = "reload" => entries.dict = _load(entries.file).dict

\* read_entries has returned the empty entries it loaded when there was no
\* file, although the file held entries for a patient when it was called
C20_Witness ==
    /\ entries.op = "read_entries" /\ entries.kind = "ok"
    /\ DOMAIN entries.dict = {}
    /\ entries.file = diagnosis_json
    /\ _load(entries.file).kind = "ok"
    /\ DOMAIN _load(entries.file).dict # {}


\* ---------------------------------------------------------------------------
\* Claims about the registry lock (Spec)
\* ---------------------------------------------------------------------------
\* the statements of _load_model that read or write the handle fields: the
\* test of line 30, the load and the two installs
HandleLabels == {"check", "load", "install_model", "install_digest"}

\* C22 (as claimed): a predict call holds the registry lock whenever it is at
\* the read-for-emptiness, the load or an install of the handle fields, so
\* that no reset() and no other predict call is inside that sequence at the
\* same time.
C22_HandleGuarded ==
    \A t \in Callers :
        pc[t] \in HandleLabels =>
            /\ lock = t
            /\ \A u \in Callers \ {t} : pc[u] \notin HandleLabels /\ ~InReset(u)


\* SpecLock: the registry called from free-running threads while the artifact
\* is left alone (the lock discipline does not involve the artifact)
NextLock ==
    \E t \in Callers :
        \/ CallPredict(t)
        \/ LoadCheckExists(t)
        \/ LoadCheckModel(t)
        \/ LoadWeights(t)
        \/ InstallModel(t)
        \/ InstallDigest(t)
        \/ LoadReturn(t)
        \/ Infer(t)
        \/ CallReset(t)
        \/ ResetClearModel(t)
        \/ ResetClearDigest(t)
        \/ CallWeightsVersion(t)
        \/ Return(t)

SpecLock == Init /\ [][NextLock]_vars

\* the classifier's inference call of thread t is running
InInference(t) == pc[t] = "infer" /\ local[t] # None

\* C23: a thread inside the inference call does not hold the registry lock, so
\* while an inference is in flight a thread that is free to call can enter
\* reset() and can read weights_version at once, unless a reset() is itself
\* in progress.
C23_LockFreeDuringInference ==
    \A u \in Callers :
        pc[u] = "infer" =>
            /\ lock # u
            /\ \A t \in Callers :
                  (pc[t] = "idle" /\ calls < MaxCalls /\ \A w \in Callers : ~InReset(w))
                      => (ENABLED CallReset(t) /\ ENABLED CallWeightsVersion(t))

\* two predict calls are inside the inference at the same time, with the
\* classifier that one of them loaded
C23_Witness ==
    \E t, u \in Callers :
        /\ t # u
        /\ InInference(t) /\ InInference(u)
        /\ loads = 1 /\ lock = 0


\* ---------------------------------------------------------------------------
\* Claims about the order of the checks of resolve_asset_path (SpecResolve)
\* ---------------------------------------------------------------------------
MustBeProvided ==
    /\ resolution.kind = "ValueError"
    /\ resolution.msg = "image_path must be provided"

\* C24: empty input fails with the validation error; otherwise a canonical
\* location outside the asset root fails with the validation error, whether or
\* not it exists; otherwise a location that does not exist fails with the
\* not-found error; otherwise the canonical location is returned.
C24_CheckOrder ==
    resolution.kind # "pending" =>
        LET target == Resolve(fs, Named(raw_path))
        IN IF IsEmptyString(raw_path) THEN MustBeProvided
           ELSE IF ~IsPrefix(ASSETS_DIR, target) THEN MustReside
           ELSE IF target \notin DOMAIN fs THEN resolution.kind = "FileNotFoundError"
           ELSE resolution.kind = "path" /\ resolution.path = target

\* /etc/passwd exists outside the root /assets and is refused like a location
\* that does not exist
C24_Witness ==
    /\ raw_path = [abs |-> TRUE, segs |-> <<"etc", "passwd">>]
    /\ ASSETS_DIR = <<"assets">>
    /\ <<"etc", "passwd">> \in DOMAIN fs
    /\ fs[<<"etc">>].type = "dir"
    /\ MustReside

\* C25 (as claimed): a path that resolve_asset_path returns has at least one
\* segment below the asset root; the root itself is never returned.
C25_NeverReturnsRoot ==
    resolution.kind = "path" =>
        /\ IsPrefix(ASSETS_DIR, resolution.path)
        /\ Len(resolution.path) > Len(ASSETS_DIR)


\* ---------------------------------------------------------------------------
\* Claim about the version tag (SpecService)
\* ---------------------------------------------------------------------------
\* C26 (as claimed): when a /predict handler has read a version tag from
\* weights_version and a classifier is cached, the cached classifier holds the
\* weights of the artifact as written at the time the tag names.
C26_TagMatchesWeights ==
    \A t \in Callers :
        (pc[t] = "version_returned" /\ ret[t] # None /\ _model # None)
            => _model = ret[t]


\* ---------------------------------------------------------------------------
\* SpecProxy: the proxy endpoints of the dashboard service,
\* classify_image_endpoint and train_model_endpoint
\* (src/pyservice/app/main.py lines 380-464), for every request body and for
\* every way the model service can answer: not at all, or with a status, a
\* content type and a body text.
\* ---------------------------------------------------------------------------
\* Python's None where a string or a JSON value is expected
PyNone == "<None>"

\* ClassifyPayload: photo_path is a required string
ClassifyPayloads ==
    {[endpoint |-> "classify", some |-> TRUE, body |-> [photo_path |-> p]] :
        p \in {"", "assets/example.jpg"}}

\* TrainPayload: every field is optional; the body itself may be missing
TrainValues ==
    [epochs |-> "7", patience |-> "2", learning_rate |-> "0.001",
     batch_size |-> "16", augment |-> "false"]

TrainPayloads ==
    {[endpoint |-> "train", some |-> FALSE, body |-> [k \in {} |-> PyNone]]}
    \cup {[endpoint |-> "train", some |-> TRUE,
           body |-> [k \in DOMAIN TrainValues |->
                        IF k \in set THEN TrainValues[k] ELSE PyNone]] :
             set \in SUBSET DOMAIN TrainValues}

\* the body texts the model service (or a gateway before it) answers with
BodyTexts ==
    {"{\"detail\": \"Image not found\"}", "{\"label\": \"c\"}", "[]", "null",
     "Internal Server Error", ""}

\* response.json(): the value of a JSON text; ValueError for any other text
json(text) ==
    CASE text = "{\"detail\": \"Image not found\"}" ->
            [ok |-> TRUE, type |-> "object", members |-> [detail |-> "Image not found"]]
      [] text = "{\"label\": \"c\"}" ->
            [ok |-> TRUE, type |-> "object", members |-> [label |-> "c"]]
      [] text = "[]" -> [ok |-> TRUE, type |-> "array", members |-> <<>>]
      [] text = "null" -> [ok |-> TRUE, type |-> "null", members |-> <<>>]
      [] OTHER -> [ok |-> FALSE, type |-> "ValueError", members |-> <<>>]

\* "application/json" in content_type
IsJsonType(content_type) ==
    content_type \in {"application/json", "application/json; charset=utf-8"}

Upstreams ==
    {Unreachable}
    \cup {[kind |-> "response", status_code |-> c, content_type |-> ct, text |-> x] :
             c \in {200, 204, 400, 404, 500, 502},
             ct \in {"application/json", "text/plain; charset=utf-8"},
             x \in BodyTexts}

NoRequest == <<>>

Raised(sent, code, detail) ==
    [kind |-> "HTTPException", status_code |-> code, detail |-> detail,
     value |-> PyNone, sent |-> sent]

\* an exception no clause of the handler catches
Uncaught(sent, exc) ==
    [kind |-> exc, status_code |-> 500, detail |-> PyNone, value |-> PyNone,
     sent |-> sent]

ReturnedBody(sent, value) ==
    [kind |-> "return", status_code |-> 200, detail |-> PyNone, value |-> value,
     sent |-> sent]

\* detail or "Model service error"
OrDefault(detail) ==
    IF detail \in {PyNone, ""} THEN "Model service error" ELSE detail

\* dict.get("detail")
GetDetail(members) ==
    IF "detail" \in DOMAIN members THEN members["detail"] ELSE PyNone

\* payload.model_dump(exclude_none=True)
model_dump_exclude_none(body) ==
    [k \in {f \in DOMAIN body : body[f] # PyNone} |-> body[k]]

\* classify_image_endpoint, lines 385-394: the request it posts, if any
classify_request(p) ==
    IF p.body.photo_path = ""
      THEN NoRequest
      ELSE [url |-> "/predict", json |-> [image_path |-> p.body.photo_path]]

\* classify_image_endpoint, lines 395-422: what it makes of the answer
classify_answer(sent, r) ==
    IF r.kind = "RequestError" THEN Raised(sent, 502, "Model service unavailable")
    ELSE LET parsed == json(r.text)
         IN IF r.status_code >= 400
              THEN IF IsJsonType(r.content_type)
                     THEN IF ~parsed.ok
                            THEN Raised(sent, r.status_code, OrDefault(r.text))
                            ELSE IF parsed.type # "object"
                              THEN Uncaught(sent, "AttributeError")
                              ELSE Raised(sent, r.status_code,
                                          OrDefault(GetDetail(parsed.members)))
                     ELSE Raised(sent, r.status_code, OrDefault(r.text))
              ELSE IF parsed.ok
                THEN ReturnedBody(sent, parsed)
                ELSE Raised(sent, 502, "Model service returned invalid JSON")

\* train_model_endpoint, lines 431-435
train_request(p) ==
    [url |-> "/train",
     json |-> IF p.some THEN model_dump_exclude_none(p.body) ELSE [k \in {} |-> PyNone]]

\* train_model_endpoint, lines 436-464; body is None for a content type that
\* is not JSON, for a text that is not JSON and for the JSON text null
train_answer(sent, r) ==
    IF r.kind = "RequestError" THEN Raised(sent, 502, "Model service unavailable")
    ELSE LET parsed == json(r.text)
             none == ~IsJsonType(r.content_type) \/ ~parsed.ok \/ parsed.type = "null"
         IN IF r.status_code >= 400
              THEN Raised(sent, r.status_code,
                          OrDefault(IF ~none /\ parsed.type = "object"
                                      THEN GetDetail(parsed.members) ELSE r.text))
              ELSE IF none
                THEN Raised(sent, 502, "Model service returned invalid JSON")
                ELSE ReturnedBody(sent, parsed)

\* the handler runs up to its await of client.post
ProxyPost ==
    /\ proxied.kind = "pending"
    /\ proxied' =
         IF payload.endpoint = "classify"
           THEN IF classify_request(payload) = NoRequest
                  THEN Raised(NoRequest, 400, "photo_path is required")
                  ELSE [kind |-> "posted", sent |-> classify_request(payload)]
           ELSE [kind |-> "posted", sent |-> train_request(payload)]
    /\ UNCHANGED <<regVars, fileVars, callVars, histVars, svcVars, dataVars,
                   pathVars, scoreVars, fitVars, storeVars, eventVars, payload, upstream>>

\* the handler resumes with the response, or with httpx.RequestError
ProxyAnswer ==
    /\ proxied.kind = "posted"
    /\ proxied' = IF payload.endpoint = "classify"
                    THEN classify_answer(proxied.sent, upstream)
                    ELSE train_answer(proxied.sent, upstream)
    /\ UNCHANGED <<regVars, fileVars, callVars, histVars, svcVars, dataVars,
                   pathVars, scoreVars, fitVars, storeVars, eventVars, payload, upstream>>

InitProxy ==
    /\ Quiescent
    /\ ScoreIdle /\ FitIdle /\ StoreIdle /\ EventsIdle
    /\ ServiceIdle /\ DataIdle /\ PathIdle
    /\ trainCorpus = NoCorpus
    /\ valCorpus = NoCorpus
    /\ payload \in ClassifyPayloads \cup TrainPayloads
    /\ upstream \in Upstreams
    /\ proxied = NotProxied

NextProxy == ProxyPost \/ ProxyAnswer

SpecProxy == InitProxy /\ [][NextProxy]_vars

\* the request was forwarded and the handler has finished
Forwarded == proxied.kind \notin {"pending", "posted"} /\ proxied.sent # NoRequest

\* C21 (as claimed): /api/classify-image forwards exactly
\* {image_path: photo_path} to /predict and /api/train-model exactly the
\* non-null fields of its payload to /train; a successful response whose body
\* is JSON is returned unchanged; an upstream status >= 400 is propagated with
\* the same status code; and, for an upstream that failed to answer or
\* answered with a status below 400, the endpoint answers 502 exactly when the
\* model service could not be reached or the body is not JSON.
C21_Transparent ==
    Forwarded =>
        LET reached == upstream.kind = "response"
            ok == reached /\ upstream.status_code < 400
            isJson == reached /\ json(upstream.text).ok
        IN /\ payload.endpoint = "classify" =>
                 proxied.sent = [url |-> "/predict",
                                 json |-> [image_path |-> payload.body.photo_path]]
           /\ payload.endpoint = "train" =>
                 /\ proxied.sent.url = "/train"
                 /\ \A k \in DOMAIN TrainValues :
                       IF payload.some /\ payload.body[k] # PyNone
                         THEN /\ k \in DOMAIN proxied.sent.json
                              /\ proxied.sent.json[k] = payload.body[k]
                         ELSE k \notin DOMAIN proxied.sent.json
           /\ (ok /\ isJson) =>
                 /\ proxied.kind = "return"
                 /\ proxied.value = json(upstream.text)
           /\ (reached /\ ~ok) =>
                 /\ proxied.kind = "HTTPException"
                 /\ proxied.status_code = upstream.status_code
           /\ (~reached \/ ok) =>
                 (proxied.status_code = 502 <=> (~reached \/ ~isJson))


\* ---------------------------------------------------------------------------
\* SpecEvents: the EventBroadcaster of the dashboard service
\* (src/pyservice/app/main.py lines 106-128), the /events streams (lines
\* 348-371) and _queue_worker (lines 156-172), as tasks of one event loop.
\* The bodies of `async with self._lock` contain no await, so the lock is free
\* whenever a task is resumed and register, unregister and the snapshot of
\* broadcast are one step each.  Every other await is a point where another
\* task may run.  A queue is named by the stream that registered it; the
\* payload of the b-th broadcast is b.
\* ---------------------------------------------------------------------------
Streams == 1 .. NumStreams

Range(seq) == {seq[i] : i \in DOMAIN seq}

\* list.remove(x): the first occurrence goes
RECURSIVE Remove(_, _)
Remove(seq, x) ==
    IF seq = <<>> THEN <<>>
    ELSE IF Head(seq) = x THEN Tail(seq)
    ELSE <<Head(seq)>> \o Remove(Tail(seq), x)

\* register, lines 113-117
register(queues, q) == Append(queues, q)

\* (mutant of unregister: the queue registered last is removed)
unregister_pop(queues, q) ==
    IF q \in Range(queues) THEN SubSeq(queues, 1, Len(queues) - 1) ELSE queues

\* unregister, lines 119-122
unregister(queues, q) ==
    IF q \in Range(queues) THEN Remove(queues, q) ELSE queues

notEventVars ==
    <<regVars, fileVars, callVars, histVars, svcVars, dataVars, pathVars,
      scoreVars, fitVars, storeVars, proxyVars>>

\* event_stream, lines 352-353 and 371: the handler registers a queue and
\* returns the StreamingResponse; its generator has not started
EventStream(s) ==
    /\ stream[s].pc = "new"
    /\ \A u \in Streams : u < s => stream[u].pc # "new"
    /\ _queues' = register(_queues, s)
    /\ stream' = [stream EXCEPT ![s].pc = "registered"]
    /\ UNCHANGED <<notEventVars, queue, worker, broadcasts, received>>

\* the client of the stream goes away; request.is_disconnected() is true
\* from now on
ClientDisconnect(s) ==
    /\ stream[s].pc \notin {"new", "ended"}
    /\ ~stream[s].gone
    /\ stream' = [stream EXCEPT ![s].gone = TRUE]
    /\ UNCHANGED <<notEventVars, _queues, queue, worker, broadcasts, received>>

\* the response starts to iterate the generator: lines 356-359, up to the
\* await of queue.get()
StartStream(s) ==
    /\ stream[s].pc = "registered"
    /\ stream' = [stream EXCEPT ![s].pc = "waiting"]
    /\ UNCHANGED <<notEventVars, _queues, queue, worker, broadcasts, received>>

\* the response is dropped before its first iteration, the client having gone:
\* the body of the generator, and so its finally clause, never runs
AbandonStream(s) ==
    /\ stream[s].pc = "registered"
    /\ stream[s].gone
    /\ stream' = [stream EXCEPT ![s].pc = "ended"]
    /\ UNCHANGED <<notEventVars, _queues, queue, worker, broadcasts, received>>

\* lines 368-369: finally: await broadcaster.unregister(queue)
Finally(s) ==
    /\ _queues' = unregister(_queues, s)
    /\ stream' = [stream EXCEPT ![s].pc = "ended", ![s].left = Len(broadcasts)]

\* lines 359 and 364-365: queue.get() returns a payload, which is yielded
GetPayload(s) ==
    /\ stream[s].pc = "waiting"
    /\ queue[s] # <<>>
    /\ queue' = [queue EXCEPT ![s] = Tail(@)]
    /\ stream' = [stream EXCEPT ![s].pc = "yielded"]
    /\ UNCHANGED <<notEventVars, _queues, worker, broadcasts, received>>

\* lines 360-363: no payload for 15 s; the loop ends if the client has gone
\* (and goes on waiting otherwise)
IdleTimeout(s) ==
    /\ stream[s].pc = "waiting"
    /\ queue[s] = <<>>
    /\ stream[s].gone
    /\ Finally(s)
    /\ UNCHANGED <<notEventVars, queue, worker, broadcasts, received>>

\* lines 366-367: the generator is resumed after its yield
ResumeStream(s) ==
    /\ stream[s].pc = "yielded"
    /\ IF stream[s].gone
         THEN Finally(s)
         ELSE /\ stream' = [stream EXCEPT ![s].pc = "waiting"]
              /\ UNCHANGED _queues
    /\ UNCHANGED <<notEventVars, queue, worker, broadcasts, received>>

\* an exception or a cancellation is raised in the generator where it is
\* suspended
CancelStream(s) ==
    /\ stream[s].pc \in {"waiting", "yielded"}
    /\ Finally(s)
    /\ UNCHANGED <<notEventVars, queue, worker, broadcasts, received>>

\* _queue_worker, lines 159-167, and broadcast, lines 125-126: an entry has
\* arrived and broadcast copies the list under the lock
BroadcastSnapshot ==
    /\ worker.pc = "blpop"
    /\ Len(broadcasts) < MaxEvents
    /\ broadcasts' = Append(broadcasts, _queues)
    /\ worker' = IF _queues = <<>> THEN worker ELSE [pc |-> "put", i |-> 1]
    /\ UNCHANGED <<notEventVars, _queues, queue, stream, received>>

\* broadcast, lines 127-128: await queue.put(payload) for the next queue of
\* the copy
BroadcastPut ==
    /\ worker.pc = "put"
    /\ LET b == Len(broadcasts)
           q == broadcasts[b][worker.i]
       IN /\ queue' = [queue EXCEPT ![q] = Append(@, b)]
          /\ received' = [received EXCEPT ![q] = Append(@, b)]
          /\ worker' = IF worker.i = Len(broadcasts[b])
                         THEN [pc |-> "blpop", i |-> 0]
                         ELSE [worker EXCEPT !.i = @ + 1]
    /\ UNCHANGED <<notEventVars, _queues, stream, broadcasts>>

InitEvents ==
    /\ Quiescent
    /\ ScoreIdle /\ FitIdle /\ StoreIdle /\ ProxyIdle
    /\ ServiceIdle /\ DataIdle /\ PathIdle
    /\ trainCorpus = NoCorpus
    /\ valCorpus = NoCorpus
    /\ _queues = <<>>
    /\ queue = [s \in Streams |-> <<>>]
    /\ stream = [s \in Streams |-> [pc |-> "new", gone |-> FALSE, left |-> -1]]
    /\ worker = [pc |-> "blpop", i |-> 0]
    /\ broadcasts = <<>>
    /\ received = [s \in Streams |-> <<>>]

NextEvents ==
    \/ \E s \in Streams :
          \/ EventStream(s)
          \/ ClientDisconnect(s)
          \/ StartStream(s)
          \/ AbandonStream(s)
          \/ GetPayload(s)
          \/ IdleTimeout(s)
          \/ ResumeStream(s)
          \/ CancelStream(s)
    \/ BroadcastSnapshot
    \/ BroadcastPut

SpecEvents == InitEvents /\ [][NextEvents]_vars

\* broadcast b has performed the put for position k of its copy
HasPut(b, k) == b < Len(broadcasts) \/ worker.pc = "blpop" \/ k < worker.i

\* C27: every queue has received the payload of a broadcast exactly when it
\* was in the copy that broadcast took and the broadcast has reached it; it
\* has received every payload once and in broadcast order; it has received
\* nothing from a broadcast that started after its unregister() completed; and
\* unregister of a queue that is not registered leaves the list as it is.
C27_BroadcastDelivery ==
    \A q \in Streams :
        LET r == received[q]
        IN /\ \A i, j \in DOMAIN r : i < j => r[i] < r[j]
           /\ \A b \in 1 .. Len(broadcasts) :
                 b \in Range(r) <=>
                    \E k \in DOMAIN broadcasts[b] :
                        broadcasts[b][k] = q /\ HasPut(b, k)
           /\ \A b \in 1 .. Len(broadcasts) :
                 Cardinality({k \in DOMAIN broadcasts[b] : broadcasts[b][k] = q}) <= 1
           /\ stream[q].left >= 0 => \A i \in DOMAIN r : r[i] <= stream[q].left
           /\ q \notin Range(_queues) => unregister(_queues, q) = _queues

\* two broadcasts are complete; the first stream left after the first one and
\* received only that, the second stream received both in order
C27_Witness ==
    /\ Len(broadcasts) = 2 /\ worker.pc = "blpop"
    /\ stream[1].pc = "ended" /\ stream[1].left = 1
    /\ received[1] = <<1>>
    /\ received[2] = <<1, 2>>
    /\ _queues = <<2>>

\* C28 (as claimed): the registered queues are queues of streams that have not
\* ended: when a stream has ended, by a disconnect seen after an event or
\* after the idle timeout, by an exception or a cancellation, its queue is no
\* longer registered.
C28_NoSubscriberLeak ==
    \A s \in Streams : stream[s].pc = "ended" => s \notin Range(_queues)


=============================================================================
